---- MODULE Spec2Model ----
(***************************************************************************)
(* A model of the utility singletons and components of the 3D portfolio    *)
(* site: CacheManager (src/utils/cacheManager.ts), ResourcePreloader       *)
(* (src/utils/performanceOptimizer.ts), the ErrorBoundary component        *)
(* (src/components/ui/ErrorBoundary.tsx), the Portfolio page with the      *)
(* VRExperience it mounts, the SettingsPanel, the localStorage cache of    *)
(* CacheManager and the manualChunks function of the build.                *)
(*                                                                         *)
(* Strings of the program are TLA+ strings; a JavaScript Map is a sequence *)
(* of entries in insertion order (the order Map iterates in).  Date.now()  *)
(* is the variable now, in milliseconds.                                   *)
(***************************************************************************)
EXTENDS Integers, Sequences, FiniteSets, TLC

VARIABLES
    now,            \* Date.now()
    nextSweep,      \* the time the setInterval timer of the constructor is next due
    memoryCache,    \* CacheManager.memoryCache: entries in insertion order
    textureCache,   \* CacheManager.textureCache: entries [key, obj] in insertion order
    geometryCache,  \* CacheManager.geometryCache
    materialCache,  \* CacheManager.materialCache
    useOrder,       \* observer: keys of memoryCache, least recently used (set or get) first
    handed,         \* observer: Three.js objects ever passed to setTexture/-Geometry/-Material
    disposed,       \* observer: objects on which dispose() has been called
    lastOp,         \* observer: the last CacheManager call, its result and its effects
    loadingQueue,   \* ResourcePreloader.loadingQueue
    isLoading,      \* ResourcePreloader.isLoading
    currentLoads,   \* ResourcePreloader.currentLoads
    loadedResources,\* ResourcePreloader.loadedResources: entries [key, obj] by url
    inflight,       \* the loadResource() promises that are pending, with their run
    nextId,         \* observer: the number of addResource calls so far, plus one
    runId,          \* the number of preload() calls that started a run
    totalItems,     \* totalItems of the latest run (a local of preload)
    loadedItems,    \* loadedItems of the latest run (a local of preload)
    events,         \* observer: what the last step shifted from the queue and the
                    \* callbacks it invoked, in order; for a preload() that starts
                    \* no run, what it returns
    mounted,        \* whether the page, and with it the ErrorBoundary, is alive
    fallback,       \* ErrorBoundary props.fallback; "" when the prop is not given
    hasError,       \* ErrorBoundary state.hasError
    error,          \* ErrorBoundary state.error; "" when undefined
    caught,         \* observer: the number of componentDidCatch calls on this page
    awaited,        \* the loadNext() promises preload() awaits with Promise.all that
                    \* are pending: the ids of their items
    selectedCategory,   \* Portfolio state
    selectedProject,    \* Portfolio state; Null when null
    showGallery,                    \* Portfolio state
    showProductVisualization,       \* Portfolio state
    showProductionDashboard,        \* Portfolio state
    showVRExperience,               \* Portfolio state
    showArchitecturalVisualization, \* Portfolio state
    showFlowerCanvas,               \* Portfolio state
    currentScene,   \* VRExperience state
    isVRMode,       \* VRExperience state
    selectedHotspot,\* VRExperience state: the hotspot; NoHotspot when null
    hovered,        \* HotspotMarker state: the id of the marker whose hovered is
                    \* true; Null when there is none
    isOpen,         \* SettingsPanel state
    showPerformancePanel,   \* SettingsPanel state
    settings,       \* SettingsPanel state
    localStorage,   \* window.localStorage: the items, key to text
    written,        \* observer: for the keys whose item is as setLocalStorage wrote
                    \* it, the arguments and the time of that call
    chunks          \* the build: the chunk of every module id bundled so far

cacheVars == <<now, nextSweep, memoryCache, textureCache, geometryCache, materialCache,
               useOrder, handed, disposed, lastOp>>

preloaderVars == <<loadingQueue, isLoading, currentLoads, loadedResources, inflight,
                   nextId, runId, totalItems, loadedItems, events, awaited>>

boundaryVars == <<mounted, fallback, hasError, error, caught>>

portfolioVars == <<selectedCategory, selectedProject, showGallery,
                   showProductVisualization, showProductionDashboard, showVRExperience,
                   showArchitecturalVisualization, showFlowerCanvas>>

vrVars == <<currentScene, isVRMode, selectedHotspot, hovered>>

settingsVars == <<isOpen, showPerformancePanel, settings>>

storageVars == <<localStorage, written>>

\* The state of the pages, of the browser's storage and of the build
pageVars == <<portfolioVars, vrVars, settingsVars, storageVars, chunks>>

\* The state of the components
uiVars == <<boundaryVars, pageVars>>

\* What the calls of CacheManager leave alone
otherVars == <<preloaderVars, uiVars>>

vars == <<cacheVars, preloaderVars, uiVars>>

----------------------------------------------------------------------------
(* Program constants of CacheManager *)

maxMemoryCacheSize == 100

defaultExpiry == 30 * 60 * 1000

CleanupInterval == 5 * 60 * 1000

(* Bounds of the model *)

\* Date.now() advances no further than this.
MaxTime == 600000

\* The steps by which time advances.
TickSteps == {CleanupInterval}

\* The number of set calls with distinct keys, at time 0, after which
\* SpecFull starts.
PrefillSize == 98

\* The number of addResource calls
MaxItems == 5

\* The number of preload calls that start a run
MaxRuns == 2

\* The number of errors the children throw on one page
MaxErrors == 9

NoKey == "<none>"

Null == "null"

----------------------------------------------------------------------------
(* JavaScript helpers *)

\* Truthiness of a string: every string but the empty one.
Truthy(s) == s # ""

\* expiry || this.defaultExpiry; an omitted expiry is modelled as 0, which
\* is falsy like undefined.
OrDefault(expiry) == IF expiry # 0 THEN expiry ELSE defaultExpiry

\* Map.has
MapHas(m, key) == \E i \in 1..Len(m) : m[i].key = key

\* Map.get: the entry stored under key (only used when MapHas)
MapGet(m, key) == m[CHOOSE i \in 1..Len(m) : m[i].key = key]

\* Map.set: an existing key keeps its place in the iteration order, a new
\* key is appended.
MapSet(m, key, entry) ==
    IF MapHas(m, key)
    THEN [i \in 1..Len(m) |-> IF m[i].key = key THEN entry ELSE m[i]]
    ELSE Append(m, entry)

\* Map.delete
MapDelete(m, key) == SelectSeq(m, LAMBDA e : e.key # key)

\* Map.keys().next().value: the first key in insertion order; undefined
\* (here NoKey) for an empty map.
FirstKey(m) == IF Len(m) = 0 THEN NoKey ELSE m[1].key

\* The keys of a map, in insertion order
MapKeys(m) == [i \in 1..Len(m) |-> m[i].key]

\* The values stored in a Three.js resource map, as a set
MapObjs(m) == {m[i].obj : i \in 1..Len(m)}

\* The number of keys under which obj is stored in m
CountObj(m, obj) == Cardinality({i \in 1..Len(m) : m[i].obj = obj})

SeqRemove(s, x) == SelectSeq(s, LAMBDA y : y # x)

----------------------------------------------------------------------------
(* CacheManager *)

\* A Three.js object on which nothing has been called
NoCalls(objs) == [o \in objs |-> 0]

TextureObjs == {"t1", "t2"}
GeometryObjs == {"g1"}
MaterialObjs == {"m1"}
Objs == TextureObjs \cup GeometryObjs \cup MaterialObjs

\* The record of a CacheManager call: its name and key, what it returned,
\* the keys it deleted from the memory cache, and how often it called
\* dispose() on each object.
Op(name, key, ret, deleted, calls) ==
    [name |-> name, key |-> key, ret |-> ret, deleted |-> deleted, calls |-> calls]

NoOp == Op("new", NoKey, Null, {}, NoCalls(Objs))

\* The keys of m that are not keys of n
KeysGone(m, n) == {m[i].key : i \in 1..Len(m)} \ {n[i].key : i \in 1..Len(n)}

\* A variant of IsExpired that takes an entry whose age equals its expiry
\* for expired.
IsExpiredAtExpiry(item, t) == item.expiry # 0 /\ t - item.timestamp >= item.expiry

\* item.expiry && Date.now() - item.timestamp > item.expiry
IsExpired(item, t) == item.expiry # 0 /\ t - item.timestamp > item.expiry

\* The key set() deletes before it stores: the first key of a full cache,
\* when that key is truthy.
EvictedKey(m) ==
    IF Len(m) >= maxMemoryCacheSize /\ FirstKey(m) # NoKey /\ Truthy(FirstKey(m))
    THEN FirstKey(m)
    ELSE NoKey

\* The memory cache after set(key, data, expiry) at time t
CacheSet(m, key, data, expiry, t) ==
    LET oldestKey == EvictedKey(m)
        kept == IF oldestKey # NoKey THEN MapDelete(m, oldestKey) ELSE m
    IN  MapSet(kept, key,
               [key |-> key, data |-> data, timestamp |-> t, expiry |-> OrDefault(expiry)])

\* What get(key) returns at time t
CacheGetResult(m, key, t) ==
    IF ~MapHas(m, key) THEN Null
    ELSE IF IsExpired(MapGet(m, key), t) THEN Null
    ELSE MapGet(m, key).data

\* The memory cache after get(key) at time t
CacheGetCache(m, key, t) ==
    IF MapHas(m, key) /\ IsExpired(MapGet(m, key), t) THEN MapDelete(m, key) ELSE m

\* A variant of CacheCleanup that stops at the first entry it deletes.
CacheCleanupFirstOnly(m, t) ==
    IF \E i \in 1..Len(m) : IsExpired(m[i], t)
    THEN MapDelete(m, m[CHOOSE i \in 1..Len(m) :
                          /\ IsExpired(m[i], t)
                          /\ \A j \in 1..(i - 1) : ~IsExpired(m[j], t)].key)
    ELSE m

\* The memory cache after cleanupExpiredCache() at time t
CacheCleanup(m, t) == SelectSeq(m, LAMBDA e : ~IsExpired(e, t))

\* getStats()
getStats ==
    [memoryCache |-> Len(memoryCache), textureCache |-> Len(textureCache),
     geometryCache |-> Len(geometryCache), materialCache |-> Len(materialCache)]

\* set(key, data, expiry)
set(key, data, expiry) ==
    LET oldestKey == EvictedKey(memoryCache)
    IN  /\ memoryCache' = CacheSet(memoryCache, key, data, expiry, now)
        /\ useOrder' = Append(SeqRemove(SeqRemove(useOrder, oldestKey), key), key)
        /\ lastOp' = Op("set", key, Null, {oldestKey} \ {NoKey}, NoCalls(Objs))
        /\ UNCHANGED <<now, nextSweep, textureCache, geometryCache, materialCache,
                       handed, disposed>>
        /\ UNCHANGED otherVars

\* get(key)
get(key) ==
    LET ret == CacheGetResult(memoryCache, key, now)
    IN  /\ memoryCache' = CacheGetCache(memoryCache, key, now)
        /\ useOrder' = IF ret # Null THEN Append(SeqRemove(useOrder, key), key)
                       ELSE SeqRemove(useOrder, key)
        /\ lastOp' = Op("get", key, ret, KeysGone(memoryCache, memoryCache'), NoCalls(Objs))
        /\ UNCHANGED <<now, nextSweep, textureCache, geometryCache, materialCache,
                       handed, disposed>>
        /\ UNCHANGED otherVars

\* setTexture(key, texture)
setTexture(key, obj) ==
    /\ textureCache' = MapSet(textureCache, key, [key |-> key, obj |-> obj])
    /\ handed' = handed \cup {obj}
    /\ lastOp' = Op("setTexture", key, Null, {}, NoCalls(Objs))
    /\ UNCHANGED <<now, nextSweep, memoryCache, geometryCache, materialCache,
                   useOrder, disposed>>
    /\ UNCHANGED otherVars

\* setGeometry(key, geometry)
setGeometry(key, obj) ==
    /\ geometryCache' = MapSet(geometryCache, key, [key |-> key, obj |-> obj])
    /\ handed' = handed \cup {obj}
    /\ lastOp' = Op("setGeometry", key, Null, {}, NoCalls(Objs))
    /\ UNCHANGED <<now, nextSweep, memoryCache, textureCache, materialCache,
                   useOrder, disposed>>
    /\ UNCHANGED otherVars

\* setMaterial(key, material)
setMaterial(key, obj) ==
    /\ materialCache' = MapSet(materialCache, key, [key |-> key, obj |-> obj])
    /\ handed' = handed \cup {obj}
    /\ lastOp' = Op("setMaterial", key, Null, {}, NoCalls(Objs))
    /\ UNCHANGED <<now, nextSweep, memoryCache, textureCache, geometryCache,
                   useOrder, disposed>>
    /\ UNCHANGED otherVars

\* The setInterval callback of the constructor: cleanupExpiredCache(), when
\* the timer is due; the timer is then due one interval later.
cleanupExpiredCache ==
    /\ now >= nextSweep
    /\ nextSweep' = nextSweep + CleanupInterval
    /\ memoryCache' = CacheCleanup(memoryCache, now)
    /\ useOrder' = SelectSeq(useOrder, LAMBDA k : MapHas(memoryCache', k))
    /\ lastOp' = Op("cleanup", NoKey, Null, KeysGone(memoryCache, memoryCache'), NoCalls(Objs))
    /\ UNCHANGED <<now, textureCache, geometryCache, materialCache, handed, disposed>>
    /\ UNCHANGED otherVars

\* A variant of DisposeCalls that disposes a held object once, however many
\* entries hold it.
DisposeCallsOncePerObject(obj) ==
    IF CountObj(textureCache, obj) + CountObj(geometryCache, obj)
           + CountObj(materialCache, obj) > 0
    THEN 1 ELSE 0

\* How often clearAll() calls dispose() on obj: once for every entry of the
\* three resource caches that holds it.
DisposeCalls(obj) ==
    CountObj(textureCache, obj) + CountObj(geometryCache, obj) + CountObj(materialCache, obj)

\* clearAll()
clearAll ==
    /\ memoryCache' = <<>>
    /\ textureCache' = <<>>
    /\ geometryCache' = <<>>
    /\ materialCache' = <<>>
    /\ useOrder' = <<>>
    /\ disposed' = disposed \cup {o \in Objs : DisposeCalls(o) > 0}
    /\ lastOp' = Op("clearAll", NoKey, Null, KeysGone(memoryCache, <<>>),
                    [o \in Objs |-> DisposeCalls(o)])
    /\ UNCHANGED <<now, nextSweep, handed>>
    /\ UNCHANGED otherVars

\* Time passes.
Tick(d) ==
    /\ now + d <= MaxTime
    /\ now' = now + d
    /\ UNCHANGED <<nextSweep, memoryCache, textureCache, geometryCache, materialCache,
                   useOrder, handed, disposed, lastOp>>
    /\ UNCHANGED otherVars

\* The memory cache after n set calls with the keys k1..kn at time 0
Prefill(n) ==
    [i \in 1..n |-> [key |-> "k" \o ToString(i), data |-> "d1", timestamp |-> 0,
                     expiry |-> defaultExpiry]]

\* The state after construction
CacheInit ==
    /\ now = 0
    /\ nextSweep = CleanupInterval
    /\ memoryCache = <<>>
    /\ textureCache = <<>>
    /\ geometryCache = <<>>
    /\ materialCache = <<>>
    /\ useOrder = <<>>
    /\ handed = {}
    /\ disposed = {}
    /\ lastOp = NoOp

----------------------------------------------------------------------------
(* The specifications of CacheManager.  Each draws the arguments of the    *)
(* calls from the small sets named in it.                                  *)

MemKeys == {"x", "y"}
GetKeys == MemKeys \cup {"z"}
DataVals == {"d1", "d2"}
Expiries == {0, CleanupInterval}
ResKeys == {"a", "b"}

\* SpecCache: the memory cache with values, expiry and time.
CacheNext ==
    \/ \E key \in MemKeys, data \in DataVals, expiry \in Expiries : set(key, data, expiry)
    \/ \E key \in GetKeys : get(key)
    \/ setTexture("a", "t1")
    \/ cleanupExpiredCache
    \/ clearAll
    \/ \E d \in TickSteps : Tick(d)

\* SpecSweep: the periodic sweep beside all four caches.
SweepNext ==
    \/ \E key \in MemKeys, expiry \in Expiries : set(key, "d1", expiry)
    \/ setTexture("a", "t1")
    \/ setGeometry("a", "g1")
    \/ setMaterial("a", "m1")
    \/ cleanupExpiredCache
    \/ clearAll
    \/ \E d \in TickSteps : Tick(d)

\* SpecRes: the Three.js resource caches.
ResNext ==
    \/ \E key \in ResKeys, obj \in TextureObjs : setTexture(key, obj)
    \/ \E obj \in GeometryObjs : setGeometry("a", obj)
    \/ \E obj \in MaterialObjs : setMaterial("a", obj)
    \/ set("x", "d1", 0)
    \/ clearAll

\* SpecFull: a memory cache that is nearly full.  It starts after
\* PrefillSize set calls at time 0, or after set("", ...) and then
\* PrefillSize set calls.
EmptyKeyFirst ==
    <<[key |-> "", data |-> "d1", timestamp |-> 0, expiry |-> defaultExpiry]>>
        \o Prefill(PrefillSize)

FullInit ==
    /\ now = 0
    /\ nextSweep = CleanupInterval
    /\ memoryCache \in {Prefill(PrefillSize), EmptyKeyFirst}
    /\ useOrder = MapKeys(memoryCache)
    /\ textureCache = <<>> /\ geometryCache = <<>> /\ materialCache = <<>>
    /\ handed = {} /\ disposed = {} /\ lastOp = NoOp

FullNext ==
    \/ \E key \in MemKeys : set(key, "d1", 0)
    \/ \E key \in {"k1", "x"} : get(key)
    \/ cleanupExpiredCache
    \/ clearAll
    \/ \E d \in TickSteps : Tick(d)


----------------------------------------------------------------------------
(* ResourcePreloader *)

maxConcurrentLoads == 3

\* cacheManager.set(cacheKey, resource, 60 * 60 * 1000)
ResourceExpiry == 60 * 60 * 1000

\* priorityOrder = { high: 0, medium: 1, low: 2 }
priorityOrder(priority) ==
    CASE priority = "high" -> 0
      [] priority = "medium" -> 1
      [] priority = "low" -> 2

\* `resource_${item.type}_${item.url}`
CacheKey(item) == "resource_" \o item.type \o "_" \o item.url

\* The object loadResource(item) resolves with: a fresh THREE.Texture for a
\* texture, fresh data otherwise.
Resource(item) ==
    (IF item.type = "texture" THEN "texture" ELSE "data") \o ToString(item.id)

\* typeof resource.dispose === 'function': of the resources the preloader
\* holds, the textures.
HasDispose(obj) == \E n \in 1..(nextId - 1) : obj = "texture" \o ToString(n)

Min(a, b) == IF a <= b THEN a ELSE b

\* An entry of the observer events
Event(cb, run, id, loaded, total) ==
    [cb |-> cb, run |-> run, item |-> id, loaded |-> loaded, total |-> total]

\* A variant of InsertIndex that also inserts before the items of the same
\* priority.
InsertIndexBeforeEqual(queue, priority) ==
    IF \E i \in 1..Len(queue) : priorityOrder(queue[i].priority) >= priorityOrder(priority)
    THEN CHOOSE i \in 1..Len(queue) :
             /\ priorityOrder(queue[i].priority) >= priorityOrder(priority)
             /\ \A j \in 1..(i - 1) :
                    ~(priorityOrder(queue[j].priority) >= priorityOrder(priority))
    ELSE 0

\* loadingQueue.findIndex(item => priorityOrder[item.priority] >
\* priorityOrder[priority]), counted from 1; 0 stands for -1.
InsertIndex(queue, priority) ==
    IF \E i \in 1..Len(queue) : priorityOrder(queue[i].priority) > priorityOrder(priority)
    THEN CHOOSE i \in 1..Len(queue) :
             /\ priorityOrder(queue[i].priority) > priorityOrder(priority)
             /\ \A j \in 1..(i - 1) :
                    ~(priorityOrder(queue[j].priority) > priorityOrder(priority))
    ELSE 0

\* The queue after addResource: push, or splice(insertIndex, 0, resource)
QueueInsert(queue, resource) ==
    LET insertIndex == InsertIndex(queue, resource.priority)
    IN  IF insertIndex = 0
        THEN Append(queue, resource)
        ELSE SubSeq(queue, 1, insertIndex - 1) \o <<resource>>
                 \o SubSeq(queue, insertIndex, Len(queue))

\* The state the calls of loadNext work on
PreloaderState ==
    [queue |-> loadingQueue, currentLoads |-> currentLoads, isLoading |-> isLoading,
     loaded |-> loadedResources, inflight |-> inflight, loadedItems |-> loadedItems,
     events |-> <<>>, mem |-> memoryCache, use |-> useOrder, op |-> lastOp,
     awaited |-> awaited]

\* The observers of the memory cache after get(key): see get
UseAfterGet(use, m, key, t) ==
    IF CacheGetResult(m, key, t) # Null THEN Append(SeqRemove(use, key), key)
    ELSE SeqRemove(use, key)

\* The observers of the memory cache after set(key, ...): see set
UseAfterSet(use, m, key) ==
    Append(SeqRemove(SeqRemove(use, EvictedKey(m)), key), key)

RECURSIVE loadNext(_, _, _)
RECURSIVE Finally(_, _, _)

\* The try block of loadNext from loadedResources.set on: the resource is
\* stored and onProgress is called.
Stored(st, item, resource, run, total) ==
    [st EXCEPT !.loaded = MapSet(@, item.url, [key |-> item.url, obj |-> resource]),
               !.loadedItems = @ + 1,
               !.events = Append(@, Event("progress", run, item.id,
                                          st.loadedItems + 1, total))]

\* The finally block of loadNext
Finally(st, run, total) ==
    LET s1 == [st EXCEPT !.currentLoads = @ - 1]
    IN  IF Len(s1.queue) > 0 THEN loadNext(s1, run, total)
        ELSE IF s1.currentLoads = 0
        THEN [s1 EXCEPT !.isLoading = FALSE,
                        !.events = Append(@, Event("complete", run, 0,
                                                   s1.loadedItems, total))]
        ELSE s1

\* loadNext(), up to its await: it returns at once on an empty queue or at
\* the concurrency cap; else it shifts the head of the queue and either
\* finds it in the memory cache and goes on synchronously, or awaits
\* loadResource(item).
loadNext(st, run, total) ==
    IF Len(st.queue) = 0 \/ st.currentLoads >= maxConcurrentLoads THEN st
    ELSE LET item == Head(st.queue)
             cacheKey == CacheKey(item)
             resource == CacheGetResult(st.mem, cacheKey, now)
             s1 == [st EXCEPT
                       !.queue = Tail(@),
                       !.currentLoads = @ + 1,
                       !.events = Append(@, Event("start", run, item.id,
                                                  st.loadedItems, total)),
                       !.mem = CacheGetCache(@, cacheKey, now),
                       !.use = UseAfterGet(@, st.mem, cacheKey, now),
                       !.op = Op("get", cacheKey, resource,
                                 KeysGone(st.mem, CacheGetCache(st.mem, cacheKey, now)),
                                 NoCalls(Objs))]
         IN  IF resource # Null
             THEN Finally(Stored(s1, item, resource, run, total), run, total)
             ELSE [s1 EXCEPT !.inflight = @ \cup {[item |-> item, run |-> run]}]

RECURSIVE StartLoads(_, _, _, _)
\* for (let i = 0; i < Math.min(maxConcurrentLoads, loadingQueue.length); i++)
\*     concurrentPromises.push(loadNext())
\* The promise of a call of loadNext() is pending when the call has reached
\* its await; the loadNext() its finally block calls is not awaited.
StartLoads(st, i, run, total) ==
    IF i < Min(maxConcurrentLoads, Len(st.queue))
    THEN LET s1 == loadNext(st, run, total)
             waits == /\ st.currentLoads < maxConcurrentLoads
                      /\ CacheGetResult(st.mem, CacheKey(Head(st.queue)), now) = Null
         IN  StartLoads([s1 EXCEPT !.awaited = IF waits THEN @ \cup {Head(st.queue).id}
                                               ELSE @],
                        i + 1, run, total)
    ELSE st

\* The variables take the values of the state st the calls of loadNext end in.
Becomes(st) ==
    /\ loadingQueue' = st.queue
    /\ currentLoads' = st.currentLoads
    /\ isLoading' = st.isLoading
    /\ loadedResources' = st.loaded
    /\ inflight' = st.inflight
    /\ loadedItems' = st.loadedItems
    /\ events' = st.events
    /\ memoryCache' = st.mem
    /\ useOrder' = st.use
    /\ lastOp' = st.op
    /\ awaited' = st.awaited

\* The promises of loadNext() resolve when their load has settled and their
\* finally block has run.
Settled(st, load) == [st EXCEPT !.awaited = @ \ {load.item.id}]

\* addResource(url, type, priority)
addResource(url, type, priority) ==
    /\ nextId <= MaxItems
    /\ loadingQueue' = QueueInsert(loadingQueue,
                           [id |-> nextId, url |-> url, type |-> type,
                            priority |-> priority])
    /\ nextId' = nextId + 1
    /\ events' = <<>>
    /\ UNCHANGED <<isLoading, currentLoads, loadedResources, inflight, runId,
                   totalItems, loadedItems, awaited>>
    /\ UNCHANGED cacheVars
    /\ UNCHANGED uiVars

\* A variant of preload without the isLoading guard: it starts a run
\* whenever it is called.
PreloadWithoutGuard ==
    /\ runId < MaxRuns
    /\ runId' = runId + 1
    /\ totalItems' = Len(loadingQueue)
    /\ LET st == StartLoads([PreloaderState EXCEPT !.isLoading = TRUE,
                                                   !.loadedItems = 0,
                                                   !.awaited = {}],
                            0, runId + 1, Len(loadingQueue))
       IN  Becomes(st)
    /\ UNCHANGED <<nextId, now, nextSweep, textureCache, geometryCache,
                   materialCache, handed, disposed>>
    /\ UNCHANGED uiVars

\* preload(onProgress, onComplete, onError), up to its await
preload ==
    IF isLoading
    THEN /\ events' = <<Event("return", 0, 0, Len(loadedResources), 0)>>
         /\ UNCHANGED <<loadingQueue, isLoading, currentLoads, loadedResources,
                        inflight, nextId, runId, totalItems, loadedItems, awaited>>
         /\ UNCHANGED cacheVars
         /\ UNCHANGED uiVars
    ELSE /\ runId < MaxRuns
         /\ runId' = runId + 1
         /\ totalItems' = Len(loadingQueue)
         /\ LET st == StartLoads([PreloaderState EXCEPT !.isLoading = TRUE,
                                                        !.loadedItems = 0,
                                                        !.awaited = {}],
                                 0, runId + 1, Len(loadingQueue))
            IN  Becomes(st)
         /\ UNCHANGED <<nextId, now, nextSweep, textureCache, geometryCache,
                        materialCache, handed, disposed>>
         /\ UNCHANGED uiVars

\* loadResource(item) resolves: the resource is cached (a texture in the
\* texture cache, anything else in the memory cache for an hour) and stored,
\* and the finally block runs.
LoadSucceeds(load) ==
    LET item == load.item
        resource == Resource(item)
        cacheKey == CacheKey(item)
        isTexture == item.type = "texture"
        s1 == [PreloaderState EXCEPT
                  !.inflight = @ \ {load},
                  !.mem = IF isTexture THEN @
                          ELSE CacheSet(@, cacheKey, resource, ResourceExpiry, now),
                  !.use = IF isTexture THEN @ ELSE UseAfterSet(@, memoryCache, cacheKey),
                  !.op = IF isTexture
                         THEN Op("setTexture", cacheKey, Null, {}, NoCalls(Objs))
                         ELSE Op("set", cacheKey, Null,
                                 {EvictedKey(memoryCache)} \ {NoKey}, NoCalls(Objs))]
    IN  /\ load \in inflight
        /\ textureCache' = IF isTexture
                           THEN MapSet(textureCache, cacheKey,
                                       [key |-> cacheKey, obj |-> resource])
                           ELSE textureCache
        /\ handed' = IF isTexture THEN handed \cup {resource} ELSE handed
        /\ LET st == Settled(Finally(Stored(s1, item, resource, load.run, totalItems),
                                     load.run, totalItems), load)
           IN  Becomes(st)
        /\ UNCHANGED <<nextId, runId, totalItems, now, nextSweep, geometryCache,
                       materialCache, disposed>>
        /\ UNCHANGED uiVars

\* A variant of LoadFails that puts the failed item back at the head of the
\* queue, to be tried again.
LoadFailsRetrying(load) ==
    LET s1 == [PreloaderState EXCEPT
                  !.inflight = @ \ {load},
                  !.queue = <<load.item>> \o @,
                  !.events = <<Event("error", load.run, load.item.id,
                                     loadedItems, totalItems)>>]
    IN  /\ load \in inflight
        /\ LET st == Settled(Finally(s1, load.run, totalItems), load)
           IN  Becomes(st)
        /\ UNCHANGED <<nextId, runId, totalItems, now, nextSweep, textureCache,
                       geometryCache, materialCache, handed, disposed>>
        /\ UNCHANGED uiVars

\* loadResource(item) rejects: onError is called and the finally block runs.
LoadFails(load) ==
    LET s1 == [PreloaderState EXCEPT
                  !.inflight = @ \ {load},
                  !.events = <<Event("error", load.run, load.item.id,
                                     loadedItems, totalItems)>>]
    IN  /\ load \in inflight
        /\ LET st == Settled(Finally(s1, load.run, totalItems), load)
           IN  Becomes(st)
        /\ UNCHANGED <<nextId, runId, totalItems, now, nextSweep, textureCache,
                       geometryCache, materialCache, handed, disposed>>
        /\ UNCHANGED uiVars

\* A variant of dispose that also resets the count of loads in flight.
DisposeResettingLoads ==
    /\ disposed' = disposed \cup {o \in MapObjs(loadedResources) : HasDispose(o)}
    /\ loadedResources' = <<>>
    /\ loadingQueue' = <<>>
    /\ currentLoads' = 0
    /\ events' = <<>>
    /\ UNCHANGED <<isLoading, inflight, nextId, runId, totalItems, loadedItems, awaited>>
    /\ UNCHANGED <<now, nextSweep, memoryCache, textureCache, geometryCache,
                   materialCache, useOrder, handed, lastOp>>
    /\ UNCHANGED uiVars

\* dispose()
dispose ==
    /\ disposed' = disposed \cup {o \in MapObjs(loadedResources) : HasDispose(o)}
    /\ loadedResources' = <<>>
    /\ loadingQueue' = <<>>
    /\ events' = <<>>
    /\ UNCHANGED <<isLoading, currentLoads, inflight, nextId, runId, totalItems,
                   loadedItems, awaited>>
    /\ UNCHANGED <<now, nextSweep, memoryCache, textureCache, geometryCache,
                   materialCache, useOrder, handed, lastOp>>
    /\ UNCHANGED uiVars

\* The state after construction
PreloaderInit ==
    /\ loadingQueue = <<>>
    /\ isLoading = FALSE
    /\ currentLoads = 0
    /\ loadedResources = <<>>
    /\ inflight = {}
    /\ nextId = 1
    /\ runId = 0
    /\ totalItems = 0
    /\ loadedItems = 0
    /\ events = <<>>
    /\ awaited = {}

\* SpecPreloader: the preloader and the cache it loads through.  The
\* resources asked for are a texture and a JSON file.
Requests ==
    {[url |-> "a.png", type |-> "texture", priority |-> "high"],
     [url |-> "b.json", type |-> "json", priority |-> "medium"]}

PreloaderNext ==
    \/ \E r \in Requests : addResource(r.url, r.type, r.priority)
    \/ preload
    \/ \E load \in inflight : LoadSucceeds(load)
    \/ \E load \in inflight : LoadFails(load)
    \/ dispose

----------------------------------------------------------------------------
(* ErrorBoundary, as main.tsx mounts it around the application (no fallback *)
(* prop) and as LazyWrapper mounts it (with its errorFallback).             *)

\* What render() returns: the children; else props.fallback when it is
\* given; else the built-in error screen with its two buttons.
render ==
    IF hasError
    THEN IF Truthy(fallback)
         THEN [shows |-> fallback, buttons |-> {}]
         ELSE [shows |-> "error screen", buttons |-> {"reload", "retry"}]
    ELSE [shows |-> "children", buttons |-> {}]

\* A variant of getDerivedStateFromError that records the error only.
GetDerivedStateFromErrorOnly(state, e) == [state EXCEPT !.error = e]

\* static getDerivedStateFromError(error): the state it returns, merged
\* into the state
getDerivedStateFromError(state, e) == [hasError |-> TRUE, error |-> e]

\* A descendant throws e while it renders: React calls
\* getDerivedStateFromError and componentDidCatch.  The children render only
\* while the boundary shows them.
ChildThrows(e) ==
    LET state == getDerivedStateFromError([hasError |-> hasError, error |-> error], e)
    IN  /\ mounted
        /\ render.shows = "children"
        /\ caught < MaxErrors
        /\ hasError' = state.hasError
        /\ error' = state.error
        /\ caught' = caught + 1
        /\ UNCHANGED <<mounted, fallback>>
        /\ UNCHANGED <<cacheVars, preloaderVars>>
        /\ UNCHANGED pageVars

\* The retry button: this.setState({ hasError: false })
Retry ==
    /\ mounted
    /\ "retry" \in render.buttons
    /\ hasError' = FALSE
    /\ UNCHANGED <<mounted, fallback, error, caught>>
    /\ UNCHANGED <<cacheVars, preloaderVars>>
    /\ UNCHANGED pageVars

\* The reload button: window.location.reload() leaves the page.
Reload ==
    /\ mounted
    /\ "reload" \in render.buttons
    /\ mounted' = FALSE
    /\ UNCHANGED <<fallback, hasError, error, caught>>
    /\ UNCHANGED <<cacheVars, preloaderVars>>
    /\ UNCHANGED pageVars

\* The page loads again: the constructor sets this.state = { hasError: false }.
PageLoad ==
    /\ ~mounted
    /\ mounted' = TRUE
    /\ hasError' = FALSE
    /\ error' = ""
    /\ caught' = 0
    /\ UNCHANGED fallback
    /\ UNCHANGED <<cacheVars, preloaderVars>>
    /\ UNCHANGED pageVars

\* The state after construction, without a fallback prop
BoundaryInit ==
    /\ mounted = TRUE
    /\ fallback = ""
    /\ hasError = FALSE
    /\ error = ""
    /\ caught = 0

\* SpecBoundary: a boundary with or without a fallback prop, whose children
\* throw these errors.
Errors == {"WebGL unsupported", "context lost", "chunk failed", "TypeError"}

BoundaryWithPropInit ==
    /\ mounted = TRUE
    /\ fallback \in {"", "errorFallback"}
    /\ hasError = FALSE
    /\ error = ""
    /\ caught = 0

BoundaryNext ==
    \/ \E e \in Errors : ChildThrows(e)
    \/ Retry
    \/ Reload
    \/ PageLoad

\* SpecQueue: the preloader asked for one texture at every priority.
Priorities == {"high", "medium", "low"}

QueueNext ==
    \/ \E priority \in Priorities : addResource("a.png", "texture", priority)
    \/ preload
    \/ \E load \in inflight : LoadSucceeds(load)
    \/ \E load \in inflight : LoadFails(load)
    \/ dispose

----------------------------------------------------------------------------
(* Portfolio (src/pages/Portfolio.tsx).  The titles of the projects are    *)
(* given in English.                                                       *)

\* const projects = useMemo(() => [...], []): id, title and category of each
projects ==
    <<[id |-> 1, title |-> "Interactive 3D gallery", category |-> "web3d"],
      [id |-> 2, title |-> "Product visualization tool", category |-> "visualization"],
      [id |-> 3, title |-> "Data visualization dashboard", category |-> "dataviz"],
      [id |-> 4, title |-> "Virtual reality experience", category |-> "vr"],
      [id |-> 5, title |-> "Architectural visualization", category |-> "architecture"],
      [id |-> 6, title |-> "Interactive flower generator", category |-> "interactive"]>>

\* const categories = useMemo(() => [...], []): the ids of the filter buttons
categories ==
    <<"all", "web3d", "visualization", "dataviz", "vr", "architecture", "interactive">>

\* A variant of filteredProjects without the case of 'all'.
FilteredProjectsByCategoryOnly ==
    SelectSeq(projects, LAMBDA project : project.category = selectedCategory)

\* const filteredProjects = useMemo(...): the list the grid renders
filteredProjects ==
    IF selectedCategory = "all"
    THEN projects
    ELSE SelectSeq(projects, LAMBDA project : project.category = selectedCategory)

\* No modal (each is fixed, inset-0, z-50) covers the filter and the grid.
NoModal ==
    /\ ~showGallery /\ ~showProductVisualization /\ ~showProductionDashboard
    /\ ~showVRExperience /\ ~showArchitecturalVisualization /\ ~showFlowerCanvas
    /\ selectedProject = Null

\* The value null of the state selectedHotspot of VRExperience
NoHotspot == [id |-> Null, type |-> Null]

\* The state of a VRExperience that has just been mounted
VRInit ==
    /\ currentScene = "space"
    /\ isVRMode = FALSE
    /\ selectedHotspot = NoHotspot
    /\ hovered = Null

\* handleCategoryChange(categoryId), the onClick of a filter button
handleCategoryChange(categoryId) ==
    /\ NoModal
    /\ selectedCategory' = categoryId
    /\ UNCHANGED <<selectedProject, showGallery, showProductVisualization,
                   showProductionDashboard, showVRExperience,
                   showArchitecturalVisualization, showFlowerCanvas>>
    /\ UNCHANGED <<vrVars, settingsVars, storageVars, chunks>>
    /\ UNCHANGED <<cacheVars, preloaderVars, boundaryVars>>

\* handleProjectClick(project), the onClick of a card of the grid
handleProjectClick(project) ==
    /\ NoModal
    /\ \E i \in 1..Len(filteredProjects) : filteredProjects[i] = project
    /\ showGallery' = (showGallery \/ project.title = "Interactive 3D gallery")
    /\ showProductVisualization' =
           (showProductVisualization \/ project.title = "Product visualization tool")
    /\ showProductionDashboard' =
           (showProductionDashboard \/ project.title = "Data visualization dashboard")
    /\ showVRExperience' = (showVRExperience \/ project.title = "Virtual reality experience")
    /\ showArchitecturalVisualization' =
           (showArchitecturalVisualization \/ project.title = "Architectural visualization")
    /\ showFlowerCanvas' =
           (showFlowerCanvas \/ project.title = "Interactive flower generator")
    /\ selectedProject' =
           IF project.title \in {"Interactive 3D gallery", "Product visualization tool",
                                 "Data visualization dashboard",
                                 "Virtual reality experience",
                                 "Architectural visualization",
                                 "Interactive flower generator"}
           THEN selectedProject
           ELSE project.id
    /\ UNCHANGED selectedCategory
    /\ UNCHANGED <<vrVars, settingsVars, storageVars, chunks>>
    /\ UNCHANGED <<cacheVars, preloaderVars, boundaryVars>>

\* The close buttons of the modals: setShowGallery(false) and the like
CloseGallery ==
    /\ showGallery
    /\ showGallery' = FALSE
    /\ UNCHANGED <<selectedCategory, selectedProject, showProductVisualization,
                   showProductionDashboard, showVRExperience,
                   showArchitecturalVisualization, showFlowerCanvas>>
    /\ UNCHANGED <<vrVars, settingsVars, storageVars, chunks>>
    /\ UNCHANGED <<cacheVars, preloaderVars, boundaryVars>>

CloseProductVisualization ==
    /\ showProductVisualization
    /\ showProductVisualization' = FALSE
    /\ UNCHANGED <<selectedCategory, selectedProject, showGallery,
                   showProductionDashboard, showVRExperience,
                   showArchitecturalVisualization, showFlowerCanvas>>
    /\ UNCHANGED <<vrVars, settingsVars, storageVars, chunks>>
    /\ UNCHANGED <<cacheVars, preloaderVars, boundaryVars>>

CloseProductionDashboard ==
    /\ showProductionDashboard
    /\ showProductionDashboard' = FALSE
    /\ UNCHANGED <<selectedCategory, selectedProject, showGallery,
                   showProductVisualization, showVRExperience,
                   showArchitecturalVisualization, showFlowerCanvas>>
    /\ UNCHANGED <<vrVars, settingsVars, storageVars, chunks>>
    /\ UNCHANGED <<cacheVars, preloaderVars, boundaryVars>>

\* Closing the VR modal unmounts VRExperience; its state is gone, and the
\* next one mounted starts from its initial state.
CloseVRExperience ==
    /\ showVRExperience
    /\ showVRExperience' = FALSE
    /\ currentScene' = "space"
    /\ isVRMode' = FALSE
    /\ selectedHotspot' = NoHotspot
    /\ hovered' = Null
    /\ UNCHANGED <<selectedCategory, selectedProject, showGallery,
                   showProductVisualization, showProductionDashboard,
                   showArchitecturalVisualization, showFlowerCanvas>>
    /\ UNCHANGED <<settingsVars, storageVars, chunks>>
    /\ UNCHANGED <<cacheVars, preloaderVars, boundaryVars>>

CloseArchitecturalVisualization ==
    /\ showArchitecturalVisualization
    /\ showArchitecturalVisualization' = FALSE
    /\ UNCHANGED <<selectedCategory, selectedProject, showGallery,
                   showProductVisualization, showProductionDashboard,
                   showVRExperience, showFlowerCanvas>>
    /\ UNCHANGED <<vrVars, settingsVars, storageVars, chunks>>
    /\ UNCHANGED <<cacheVars, preloaderVars, boundaryVars>>

CloseFlowerCanvas ==
    /\ showFlowerCanvas
    /\ showFlowerCanvas' = FALSE
    /\ UNCHANGED <<selectedCategory, selectedProject, showGallery,
                   showProductVisualization, showProductionDashboard,
                   showVRExperience, showArchitecturalVisualization>>
    /\ UNCHANGED <<vrVars, settingsVars, storageVars, chunks>>
    /\ UNCHANGED <<cacheVars, preloaderVars, boundaryVars>>

\* The state of a Portfolio that has just been mounted
PortfolioInit ==
    /\ selectedCategory = "all"
    /\ selectedProject = Null
    /\ showGallery = FALSE
    /\ showProductVisualization = FALSE
    /\ showProductionDashboard = FALSE
    /\ showVRExperience = FALSE
    /\ showArchitecturalVisualization = FALSE
    /\ showFlowerCanvas = FALSE

----------------------------------------------------------------------------
(* VRExperience (src/components/3d/VRExperience.tsx), mounted in the VR    *)
(* modal of Portfolio                                                      *)

\* type VRScene
VRScenes == {"space", "underwater", "forest", "city", "museum"}

Hotspot(id, type) == [id |-> id, type |-> type]

\* getSceneHotspots(scene): id and type of each hotspot
getSceneHotspots(scene) ==
    CASE scene = "space" ->
             <<Hotspot("1", "info"), Hotspot("2", "teleport"), Hotspot("3", "interaction")>>
      [] scene = "underwater" -> <<Hotspot("4", "info"), Hotspot("5", "teleport")>>
      [] scene = "forest" -> <<Hotspot("6", "interaction"), Hotspot("7", "info")>>
      [] scene = "city" -> <<Hotspot("8", "teleport"), Hotspot("9", "interaction")>>
      [] scene = "museum" -> <<Hotspot("10", "info"), Hotspot("11", "teleport")>>
      [] OTHER -> <<>>

\* const currentHotspots = useMemo(() => getSceneHotspots(currentScene), ...)
currentHotspots == getSceneHotspots(currentScene)

\* The HotspotMarker components rendered: one for each current hotspot
Markers == {currentHotspots[i] : i \in 1..Len(currentHotspots)}

\* A variant of handleSceneChange without setSelectedHotspot(null).
HandleSceneChangeKeepingSelection(scene) ==
    /\ showVRExperience
    /\ currentScene' = scene
    /\ hovered' = IF scene = currentScene THEN hovered ELSE Null
    /\ UNCHANGED <<isVRMode, selectedHotspot>>
    /\ UNCHANGED <<portfolioVars, settingsVars, storageVars, chunks>>
    /\ UNCHANGED <<cacheVars, preloaderVars, boundaryVars>>

\* handleSceneChange(scene), the onClick of a button of VRSceneSelector.  The
\* markers of another scene are unmounted, and their hovered state with them.
handleSceneChange(scene) ==
    /\ showVRExperience
    /\ currentScene' = scene
    /\ selectedHotspot' = NoHotspot
    /\ hovered' = IF scene = currentScene THEN hovered ELSE Null
    /\ UNCHANGED isVRMode
    /\ UNCHANGED <<portfolioVars, settingsVars, storageVars, chunks>>
    /\ UNCHANGED <<cacheVars, preloaderVars, boundaryVars>>

\* handleHotspotSelect(hotspot), the onClick of a rendered HotspotMarker
handleHotspotSelect(hotspot) ==
    /\ showVRExperience
    /\ hotspot \in Markers
    /\ selectedHotspot' = hotspot
    /\ UNCHANGED <<currentScene, isVRMode, hovered>>
    /\ UNCHANGED <<portfolioVars, settingsVars, storageVars, chunks>>
    /\ UNCHANGED <<cacheVars, preloaderVars, boundaryVars>>

\* handleCloseHotspot(), the close button of the hotspot panel, which is
\* rendered while a hotspot is selected
handleCloseHotspot ==
    /\ showVRExperience
    /\ selectedHotspot # NoHotspot
    /\ selectedHotspot' = NoHotspot
    /\ UNCHANGED <<currentScene, isVRMode, hovered>>
    /\ UNCHANGED <<portfolioVars, settingsVars, storageVars, chunks>>
    /\ UNCHANGED <<cacheVars, preloaderVars, boundaryVars>>

\* toggleVRMode()
toggleVRMode ==
    /\ showVRExperience
    /\ isVRMode' = ~isVRMode
    /\ UNCHANGED <<currentScene, selectedHotspot, hovered>>
    /\ UNCHANGED <<portfolioVars, settingsVars, storageVars, chunks>>
    /\ UNCHANGED <<cacheVars, preloaderVars, boundaryVars>>

\* onPointerOver of a rendered HotspotMarker: setHovered(true)
PointerOver(hotspot) ==
    /\ showVRExperience
    /\ hotspot \in Markers
    /\ hovered = Null
    /\ hovered' = hotspot.id
    /\ UNCHANGED <<currentScene, isVRMode, selectedHotspot>>
    /\ UNCHANGED <<portfolioVars, settingsVars, storageVars, chunks>>
    /\ UNCHANGED <<cacheVars, preloaderVars, boundaryVars>>

\* onPointerOut of the HotspotMarker the pointer is over: setHovered(false)
PointerOut ==
    /\ showVRExperience
    /\ hovered # Null
    /\ hovered' = Null
    /\ UNCHANGED <<currentScene, isVRMode, selectedHotspot>>
    /\ UNCHANGED <<portfolioVars, settingsVars, storageVars, chunks>>
    /\ UNCHANGED <<cacheVars, preloaderVars, boundaryVars>>

\* SpecPortfolio: the Portfolio page and the VRExperience it mounts.
AllHotspots == UNION {{getSceneHotspots(scene)[i] : i \in 1..Len(getSceneHotspots(scene))} :
                         scene \in VRScenes}

PortfolioNext ==
    \/ \E i \in 1..Len(categories) : handleCategoryChange(categories[i])
    \/ \E i \in 1..Len(projects) : handleProjectClick(projects[i])
    \/ CloseGallery
    \/ CloseProductVisualization
    \/ CloseProductionDashboard
    \/ CloseVRExperience
    \/ CloseArchitecturalVisualization
    \/ CloseFlowerCanvas
    \/ \E scene \in VRScenes : handleSceneChange(scene)
    \/ \E hotspot \in AllHotspots : handleHotspotSelect(hotspot)
    \/ handleCloseHotspot
    \/ toggleVRMode
    \/ \E hotspot \in AllHotspots : PointerOver(hotspot)
    \/ PointerOut

----------------------------------------------------------------------------
(* SettingsPanel (src/components/ui/PerformancePanel.tsx, from line 221)   *)

\* The initial value of settings, and the value resetSettings() sets
DefaultSettings ==
    [quality |-> "medium", shadows |-> TRUE, particles |-> TRUE, animations |-> TRUE,
     autoRotate |-> FALSE, showStats |-> FALSE]

\* The settings button: setIsOpen(!isOpen)
ToggleSettings ==
    /\ isOpen' = ~isOpen
    /\ UNCHANGED <<showPerformancePanel, settings>>
    /\ UNCHANGED <<portfolioVars, vrVars, storageVars, chunks>>
    /\ UNCHANGED <<cacheVars, preloaderVars, boundaryVars>>

\* The two close buttons of the panel: setIsOpen(false)
CloseSettings ==
    /\ isOpen
    /\ isOpen' = FALSE
    /\ UNCHANGED <<showPerformancePanel, settings>>
    /\ UNCHANGED <<portfolioVars, vrVars, storageVars, chunks>>
    /\ UNCHANGED <<cacheVars, preloaderVars, boundaryVars>>

\* updateSetting(key, value), the onChange of an input of the open panel.
\* It writes nothing to localStorage.
updateSetting(key, value) ==
    /\ isOpen
    /\ settings' = [settings EXCEPT ![key] = value]
    /\ showPerformancePanel' = IF key = "showStats" THEN value ELSE showPerformancePanel
    /\ UNCHANGED isOpen
    /\ UNCHANGED <<portfolioVars, vrVars, storageVars, chunks>>
    /\ UNCHANGED <<cacheVars, preloaderVars, boundaryVars>>

\* resetSettings(), the reset button of the open panel.  It writes nothing
\* to localStorage.
resetSettings ==
    /\ isOpen
    /\ settings' = DefaultSettings
    /\ showPerformancePanel' = FALSE
    /\ UNCHANGED isOpen
    /\ UNCHANGED <<portfolioVars, vrVars, storageVars, chunks>>
    /\ UNCHANGED <<cacheVars, preloaderVars, boundaryVars>>

\* The onClose of PerformancePanel, which is visible while showPerformancePanel
ClosePerformancePanel ==
    /\ showPerformancePanel
    /\ showPerformancePanel' = FALSE
    /\ settings' = [settings EXCEPT !.showStats = FALSE]
    /\ UNCHANGED isOpen
    /\ UNCHANGED <<portfolioVars, vrVars, storageVars, chunks>>
    /\ UNCHANGED <<cacheVars, preloaderVars, boundaryVars>>

\* The state of a SettingsPanel that has just been mounted
SettingsInit ==
    /\ isOpen = FALSE
    /\ showPerformancePanel = FALSE
    /\ settings = DefaultSettings

\* SpecSettings: the settings panel.  A radio button sets the quality it
\* stands for, a checkbox the opposite of the value it shows.
Qualities == {"low", "medium", "high"}
Switches == {"shadows", "particles", "animations", "autoRotate", "showStats"}

SettingsNext ==
    \/ ToggleSettings
    \/ CloseSettings
    \/ \E quality \in Qualities \ {settings.quality} : updateSetting("quality", quality)
    \/ \E key \in Switches : updateSetting(key, ~settings[key])
    \/ resetSettings
    \/ ClosePerformancePanel

----------------------------------------------------------------------------
(* The localStorage cache of CacheManager.  A JavaScript value is written  *)
(* as the text of an expression that denotes it ("'d1'", "NaN",            *)
(* "new Date(0)", "10n", "null", "undefined"); localStorage is a function  *)
(* from the keys of its items to their texts.                              *)

\* The values handed to setLocalStorage as data: a string, NaN, a Date and
\* a BigInt.
StorageData == {"'d1'", "NaN", "new Date(0)", "10n"}

Undefined == "undefined"

\* JSON.stringify(value) for a value inside an object: a string in double
\* quotes, null for NaN, the ISO string toJSON() gives for a Date; a BigInt
\* makes it throw (here "TypeError").
JSONstringify(value) ==
    CASE value = "'d1'" -> "\"d1\""
      [] value = "NaN" -> "null"
      [] value = "new Date(0)" -> "\"1970-01-01T00:00:00.000Z\""
      [] value = "10n" -> "TypeError"

\* JSON.parse(text) for the text of a value
JSONparse(text) ==
    CASE text = "\"d1\"" -> "'d1'"
      [] text = "\"1970-01-01T00:00:00.000Z\"" -> "'1970-01-01T00:00:00.000Z'"
      [] text = "null" -> Null

\* JSON.stringify(item) for item = { data, timestamp, expiry }
ItemText(data, timestamp, expiry) ==
    "{\"data\":" \o JSONstringify(data) \o ",\"timestamp\":" \o ToString(timestamp)
        \o ",\"expiry\":" \o ToString(expiry) \o "}"

\* The items whose text localStorage can hold within the bounds
Items ==
    [data : {"\"d1\"", "\"1970-01-01T00:00:00.000Z\"", "null"},
     timestamp : {t \in 0..MaxTime : t % CleanupInterval = 0} \cup {MaxTime},
     expiry : {defaultExpiry, CleanupInterval}]

TextOf(item) ==
    "{\"data\":" \o item.data \o ",\"timestamp\":" \o ToString(item.timestamp)
        \o ",\"expiry\":" \o ToString(item.expiry) \o "}"

\* JSON.parse(itemStr): the item, null for the text null, or a SyntaxError
JSONparseItem(itemStr) ==
    IF \E item \in Items : TextOf(item) = itemStr
    THEN LET item == CHOOSE item \in Items : TextOf(item) = itemStr
         IN  [kind |-> "object", data |-> JSONparse(item.data),
              timestamp |-> item.timestamp, expiry |-> item.expiry]
    ELSE IF itemStr = "null"
    THEN [kind |-> "null", data |-> Undefined, timestamp |-> 0, expiry |-> 0]
    ELSE [kind |-> "SyntaxError", data |-> Undefined, timestamp |-> 0, expiry |-> 0]

\* What the try block of getLocalStorage and of cleanupLocalStorage does with
\* a truthy itemStr: "throws" when JSON.parse throws or item is null (reading
\* item.expiry then throws), "expired", or "live".
ReadItem(itemStr, t) ==
    LET item == JSONparseItem(itemStr)
    IN  IF item.kind # "object" THEN "throws"
        ELSE IF IsExpired(item, t) THEN "expired"
        ELSE "live"

\* `cache_${key}`
StorageKey(key) == "cache_" \o key

\* key.startsWith('cache_')
startsWithCache(key) == Len(key) >= 6 /\ SubSeq(key, 1, 6) = "cache_"

\* localStorage.setItem
setItem(store, key, text) == (key :> text) @@ store

\* localStorage.removeItem
removeItem(store, key) == [k \in DOMAIN store \ {key} |-> store[k]]

\* if (itemStr), for itemStr = localStorage.getItem(key): the item exists
\* and its text is not empty.
HasText(store, key) == key \in DOMAIN store /\ Truthy(store[key])

\* The observer written without the keys in gone
Forget(w, gone) == [k \in DOMAIN w \ gone |-> w[k]]

\* setLocalStorage(key, data, expiry)
setLocalStorage(key, data, expiry) ==
    LET throws == JSONstringify(data) = "TypeError"
        item == [data |-> data, timestamp |-> now, expiry |-> OrDefault(expiry)]
    IN  /\ localStorage' =
               IF throws THEN localStorage
               ELSE setItem(localStorage, StorageKey(key),
                            ItemText(item.data, item.timestamp, item.expiry))
        /\ written' = IF throws THEN written ELSE (key :> item) @@ written
        /\ lastOp' = Op("setLocalStorage", key, IF throws THEN "warn" ELSE Undefined,
                        {}, NoCalls(Objs))
        /\ UNCHANGED <<now, nextSweep, memoryCache, textureCache, geometryCache,
                       materialCache, useOrder, handed, disposed>>
        /\ UNCHANGED <<portfolioVars, vrVars, settingsVars, chunks>>
        /\ UNCHANGED <<preloaderVars, boundaryVars>>

\* getLocalStorage(key)
getLocalStorage(key) ==
    LET k == StorageKey(key)
        read == IF HasText(localStorage, k) THEN ReadItem(localStorage[k], now)
                ELSE "absent"
    IN  /\ localStorage' = IF read = "expired" THEN removeItem(localStorage, k)
                           ELSE localStorage
        /\ written' = IF read = "expired" THEN Forget(written, {key}) ELSE written
        /\ lastOp' = Op("getLocalStorage", key,
                        IF read = "live" THEN JSONparseItem(localStorage[k]).data
                        ELSE Null,
                        DOMAIN localStorage \ DOMAIN localStorage', NoCalls(Objs))
        /\ UNCHANGED <<now, nextSweep, memoryCache, textureCache, geometryCache,
                       materialCache, useOrder, handed, disposed>>
        /\ UNCHANGED <<portfolioVars, vrVars, settingsVars, chunks>>
        /\ UNCHANGED <<preloaderVars, boundaryVars>>

\* The keys cleanupLocalStorage() removes at time t: those with the prefix
\* whose text is truthy and is expired or makes the try block throw.
CleanupRemoves(store, t) ==
    {k \in DOMAIN store :
        /\ startsWithCache(k)
        /\ HasText(store, k)
        /\ ReadItem(store[k], t) \in {"expired", "throws"}}

\* cleanupLocalStorage()
cleanupLocalStorage ==
    LET removed == CleanupRemoves(localStorage, now)
    IN  /\ localStorage' = [k \in DOMAIN localStorage \ removed |-> localStorage[k]]
        /\ written' = Forget(written, {key \in DOMAIN written : StorageKey(key) \in removed})
        /\ lastOp' = Op("cleanupLocalStorage", NoKey, Undefined, removed, NoCalls(Objs))
        /\ UNCHANGED <<now, nextSweep, memoryCache, textureCache, geometryCache,
                       materialCache, useOrder, handed, disposed>>
        /\ UNCHANGED <<portfolioVars, vrVars, settingsVars, chunks>>
        /\ UNCHANGED <<preloaderVars, boundaryVars>>

\* Other code of the origin, or the user, sets an item.
ForeignSetItem(key, text) ==
    /\ localStorage' = setItem(localStorage, key, text)
    /\ written' = Forget(written, {k \in DOMAIN written : StorageKey(k) = key})
    /\ lastOp' = Op("setItem", key, Undefined, {}, NoCalls(Objs))
    /\ UNCHANGED <<now, nextSweep, memoryCache, textureCache, geometryCache,
                   materialCache, useOrder, handed, disposed>>
    /\ UNCHANGED <<portfolioVars, vrVars, settingsVars, chunks>>
    /\ UNCHANGED <<preloaderVars, boundaryVars>>

\* An empty localStorage
StorageInit ==
    /\ localStorage = <<>>
    /\ written = <<>>

\* SpecStorage: the localStorage cache, beside an item of other code and
\* items that are damaged.
StorageKeys == {"a", "b"}
ForeignKeys == {"theme", "cache_a"}
ForeignTexts == {"", "dark", "null", ItemText("'d1'", 0, CleanupInterval)}

StorageNext ==
    \/ \E key \in StorageKeys, data \in StorageData, expiry \in Expiries :
           setLocalStorage(key, data, expiry)
    \/ \E key \in StorageKeys : getLocalStorage(key)
    \/ cleanupLocalStorage
    \/ \E key \in ForeignKeys, text \in ForeignTexts : ForeignSetItem(key, text)
    \/ \E d \in TickSteps : Tick(d)

----------------------------------------------------------------------------
(* The build: manualChunks of vite.config.ts                               *)

\* String.prototype.includes
includes(id, s) ==
    \E i \in 1..(Len(id) - Len(s) + 1) : SubSeq(id, i, i + Len(s) - 1) = s

\* manualChunks(id); Undefined when it returns nothing
manualChunks(id) ==
    IF includes(id, "three") THEN "three"
    ELSE IF includes(id, "@react-three") THEN "react-three"
    ELSE IF includes(id, "framer-motion") THEN "animation"
    ELSE IF includes(id, "react") \/ includes(id, "react-dom") THEN "react-vendor"
    ELSE IF includes(id, "react-router") THEN "router"
    ELSE IF includes(id, "node_modules") THEN "vendor"
    ELSE Undefined

\* Rollup calls manualChunks for a module of the graph.
Bundle(id) ==
    /\ id \notin DOMAIN chunks
    /\ chunks' = (id :> manualChunks(id)) @@ chunks
    /\ UNCHANGED <<portfolioVars, vrVars, settingsVars, storageVars>>
    /\ UNCHANGED <<cacheVars, preloaderVars, boundaryVars>>

\* No module has been bundled.
BuildInit == chunks = <<>>

\* SpecBuild: the modules of the build, in any order.
ModuleIds ==
    {"/app/node_modules/three/build/three.module.js",
     "/app/node_modules/@react-three/fiber/dist/index.js",
     "/app/node_modules/@react-three/drei/index.js",
     "/app/node_modules/framer-motion/dist/es/index.mjs",
     "/app/node_modules/react/index.js",
     "/app/node_modules/react-dom/index.js",
     "/app/node_modules/react-router-dom/dist/index.js",
     "/app/node_modules/zustand/esm/index.mjs",
     "/app/src/App.tsx"}

BuildNext == \E id \in ModuleIds : Bundle(id)

\* The state of the pages, of localStorage and of the build after the page
\* has loaded
PageInit == PortfolioInit /\ VRInit /\ SettingsInit /\ StorageInit /\ BuildInit

----------------------------------------------------------------------------
(* The specifications *)

\* The state after the page has loaded: the singletons are constructed and
\* the application is mounted.
Init == CacheInit /\ PreloaderInit /\ BoundaryInit /\ PageInit

\* The same, with the memory cache nearly full
InitFull == FullInit /\ PreloaderInit /\ BoundaryInit /\ PageInit

\* The same, for either use of ErrorBoundary
InitBoundary == CacheInit /\ PreloaderInit /\ BoundaryWithPropInit /\ PageInit

SpecCache == Init /\ [][CacheNext]_vars
SpecSweep == Init /\ [][SweepNext]_vars
SpecRes == Init /\ [][ResNext]_vars
SpecFull == InitFull /\ [][FullNext]_vars
SpecPreloader == Init /\ [][PreloaderNext]_vars
SpecQueue == Init /\ [][QueueNext]_vars
SpecBoundary == InitBoundary /\ [][BoundaryNext]_vars
SpecPortfolio == Init /\ [][PortfolioNext]_vars
SpecSettings == Init /\ [][SettingsNext]_vars
SpecStorage == Init /\ [][StorageNext]_vars
SpecBuild == Init /\ [][BuildNext]_vars

\* SpecPreloaderFair: SpecPreloader, in which every load that was started
\* eventually succeeds or fails.
SpecPreloaderFair ==
    /\ Init /\ [][PreloaderNext]_vars
    /\ WF_vars(\E load \in inflight : LoadSucceeds(load) \/ LoadFails(load))

----------------------------------------------------------------------------
(* Properties of CacheManager *)

\* C2: in every reachable state the memory cache holds at most
\* maxMemoryCacheSize (100) entries.
MemoryCacheBounded == Len(memoryCache) <= maxMemoryCacheSize

\* C3: when set() evicts an entry from a full memory cache, that entry is
\* the least recently used one: the one whose last set or get is the oldest.
SetEvictsLeastRecentlyUsed ==
    [][\A key \in MemKeys :
          set(key, "d1", 0) => \A k \in lastOp'.deleted : k = Head(useOrder)]_vars

\* C4: get(key) returns null for an absent key and leaves the cache as it
\* is; for an entry whose age exceeds its expiry it returns null and removes
\* that entry and no other; otherwise it returns the stored data and leaves
\* the cache as it is.
GetReturnsLiveData ==
    [][\A key \in GetKeys :
          get(key) =>
              LET present == \E i \in 1..Len(memoryCache) : memoryCache[i].key = key
                  item == memoryCache[CHOOSE i \in 1..Len(memoryCache) :
                                          memoryCache[i].key = key]
              IN  /\ ~present => lastOp'.ret = Null /\ memoryCache' = memoryCache
                  /\ present /\ now - item.timestamp > item.expiry =>
                        /\ lastOp'.ret = Null
                        /\ memoryCache' = SelectSeq(memoryCache, LAMBDA e : e.key # key)
                  /\ present /\ now - item.timestamp <= item.expiry =>
                        /\ lastOp'.ret = item.data
                        /\ memoryCache' = memoryCache]_vars

\* C4 witness: a get() has just found its entry expired and removed it,
\* while another entry stays cached.
GetFoundExpired ==
    /\ lastOp.name = "get"
    /\ lastOp.deleted = {lastOp.key}
    /\ lastOp.ret = Null
    /\ memoryCache # <<>>

\* C8: the periodic cleanup removes from the memory cache exactly the
\* entries whose age exceeds their expiry, keeps the others in their order,
\* and leaves the texture, geometry and material caches unchanged.
SweepRemovesExactlyExpired ==
    [][cleanupExpiredCache =>
          /\ memoryCache' =
                SelectSeq(memoryCache, LAMBDA e : now - e.timestamp <= e.expiry)
          /\ textureCache' = textureCache
          /\ geometryCache' = geometryCache
          /\ materialCache' = materialCache]_vars

\* C8 witness: a sweep has just removed expired entries while an
\* unexpired entry and the three resource caches are still held.
SweepRemovedSome ==
    /\ lastOp.name = "cleanup"
    /\ lastOp.deleted # {}
    /\ memoryCache # <<>>
    /\ textureCache # <<>> /\ geometryCache # <<>> /\ materialCache # <<>>

\* The number of entries of the three resource caches that hold obj
EntriesHolding(obj) ==
    Cardinality({i \in 1..Len(textureCache) : textureCache[i].obj = obj})
        + Cardinality({i \in 1..Len(geometryCache) : geometryCache[i].obj = obj})
        + Cardinality({i \in 1..Len(materialCache) : materialCache[i].obj = obj})

AllCachesEmpty ==
    /\ memoryCache = <<>> /\ textureCache = <<>>
    /\ geometryCache = <<>> /\ materialCache = <<>>
    /\ getStats = [memoryCache |-> 0, textureCache |-> 0,
                   geometryCache |-> 0, materialCache |-> 0]

\* C9 as amended: clearAll() leaves all four caches empty, getStats() then
\* reports 0 for each, and it calls dispose() on every held texture,
\* geometry and material once for each cache entry that holds it.
ClearAllDisposesEachEntry ==
    [][clearAll =>
          /\ AllCachesEmpty'
          /\ \A o \in Objs : lastOp'.calls[o] = EntriesHolding(o)]_vars

\* C9 as stated: clearAll() empties the four caches and calls dispose()
\* exactly once on every texture, geometry and material held.
ClearAllDisposesOnce ==
    [][clearAll =>
          /\ AllCachesEmpty'
          /\ \A o \in Objs : EntriesHolding(o) > 0 => lastOp'.calls[o] = 1]_vars

\* C9 witness: clearAll() has just disposed a texture held under two keys,
\* a geometry and a material.
ClearAllDisposedShared ==
    /\ lastOp.name = "clearAll"
    /\ \E o \in TextureObjs : lastOp.calls[o] = 2
    /\ \A o \in GeometryObjs \cup MaterialObjs : lastOp.calls[o] = 1
    /\ memoryCache = <<>> /\ textureCache = <<>>

\* C10: right after clearAll() every texture, geometry and material that was
\* ever handed to setTexture, setGeometry or setMaterial has been disposed.
NothingLeaksAfterClearAll == lastOp.name = "clearAll" => handed \subseteq disposed

----------------------------------------------------------------------------
(* Properties of ResourcePreloader *)

\* C1: in every reachable state the number of loads in flight, which
\* currentLoads counts, is between 0 and maxConcurrentLoads (3).
CurrentLoadsWithinCap ==
    /\ currentLoads = Cardinality(inflight)
    /\ 0 <= currentLoads
    /\ currentLoads <= maxConcurrentLoads

\* C1 witness: three loads are in flight while more items wait in the queue.
LoadsAtCap ==
    /\ currentLoads = maxConcurrentLoads
    /\ Cardinality(inflight) = maxConcurrentLoads
    /\ Len(loadingQueue) > 0

\* The entries of the events of a step that report callback cb
EventsOf(evs, cb) == SelectSeq(evs, LAMBDA e : e.cb = cb)

\* C6: when the load of an item fails, onError is called once, with that
\* item; the item is not queued or started again and is not stored in
\* loadedResources; the next queued item is started; and onComplete is
\* called, once, exactly when no item is left queued or in flight.
FailureIsReportedNotRetried ==
    [][\A load \in inflight :
          LoadFails(load) =>
              LET id == load.item.id
                  settled == loadingQueue' = <<>> /\ inflight' = {}
              IN  /\ Len(EventsOf(events', "error")) = 1
                  /\ events'[1].cb = "error" /\ events'[1].item = id
                  /\ \A i \in 1..Len(loadingQueue') : loadingQueue'[i].id # id
                  /\ \A l \in inflight' : l.item.id # id
                  /\ \A i \in 1..Len(events') :
                        events'[i].cb \in {"start", "progress"} => events'[i].item # id
                  /\ \A i \in 1..Len(loadedResources') :
                        loadedResources'[i].obj # Resource(load.item)
                  /\ loadingQueue # <<>> =>
                        \E i \in 1..Len(events') :
                            /\ events'[i].cb = "start"
                            /\ events'[i].item = Head(loadingQueue).id
                  /\ Len(EventsOf(events', "complete")) = IF settled THEN 1 ELSE 0
                  /\ settled => events'[Len(events')].cb = "complete" /\ ~isLoading']_vars

\* C6 witness: a load has just failed, onError was called, the run went on
\* to start a queued item, and other items of the run were loaded.
FailedAndWentOn ==
    /\ Len(events) >= 2
    /\ events[1].cb = "error"
    /\ events[2].cb = "start"
    /\ loadedResources # <<>>

\* The queue is ordered by priority, first in first out among equals.
QueueOrdered ==
    \A i, j \in 1..Len(loadingQueue) :
        i < j =>
            \/ priorityOrder(loadingQueue[i].priority) < priorityOrder(loadingQueue[j].priority)
            \/ /\ loadingQueue[i].priority = loadingQueue[j].priority
               /\ loadingQueue[i].id < loadingQueue[j].id

\* The items a step starts are the first items of the queue, in queue order,
\* and it leaves the rest of the queue as it is.
StartsInQueueOrder ==
    LET started == EventsOf(events', "start")
    IN  started # <<>> =>
            /\ Len(started) <= Len(loadingQueue)
            /\ \A i \in 1..Len(started) : started[i].item = loadingQueue[i].id
            /\ loadingQueue' = SubSeq(loadingQueue, Len(started) + 1, Len(loadingQueue))

\* C7: the loading queue is always ordered high before medium before low,
\* first in first out among items of equal priority, and the items are
\* started in queue order.
QueueByPriorityAndStartedInOrder == []QueueOrdered /\ [][StartsInQueueOrder]_vars

\* C7 witness: a run has just started two items while the queue holds an
\* item added later ahead of an item of lower priority added earlier.
StartedFromOrderedQueue ==
    /\ Len(EventsOf(events, "start")) >= 2
    /\ Len(loadingQueue) >= 2
    /\ loadingQueue[1].id > loadingQueue[2].id
    /\ loadingQueue[1].priority # loadingQueue[2].priority

----------------------------------------------------------------------------
(* Properties of ErrorBoundary *)

----------------------------------------------------------------------------
(* Properties of Portfolio and VRExperience *)

\* C11: after a category filter is clicked the displayed project list is
\* exactly the projects whose category equals the selected category, in
\* their original order, and is the full project list for 'all'.
FilterShowsSelectedCategory ==
    [][\A c \in 1..Len(categories) :
          handleCategoryChange(categories[c]) =>
              LET shown == filteredProjects'
                  Place(p) == CHOOSE i \in 1..Len(projects) : projects[i] = p
              IN  /\ categories[c] = "all" => shown = projects
                  /\ categories[c] # "all" =>
                        /\ \A j \in 1..Len(shown) :
                              /\ \E i \in 1..Len(projects) : projects[i] = shown[j]
                              /\ shown[j].category = categories[c]
                        /\ \A i \in 1..Len(projects) :
                              projects[i].category = categories[c] =>
                                  \E j \in 1..Len(shown) : shown[j] = projects[i]
                        /\ \A j, k \in 1..Len(shown) :
                              j < k => Place(shown[j]) < Place(shown[k])]_vars

\* C11 witness: the list is filtered to the category 'vr', and the one
\* project it shows has been clicked.
FilteredToVR ==
    /\ selectedCategory = "vr"
    /\ Len(filteredProjects) = 1
    /\ filteredProjects[1].id = 4
    /\ showVRExperience

\* The selected hotspot is null or a hotspot of the current scene.
SelectionInScene ==
    \/ selectedHotspot = NoHotspot
    \/ \E i \in 1..Len(getSceneHotspots(currentScene)) :
           getSceneHotspots(currentScene)[i] = selectedHotspot

\* C19: the selected hotspot is always null or one of the hotspots of the
\* current scene: changing the scene clears the selection, and a hotspot is
\* only ever selected from the markers of the current scene.
SelectedHotspotInCurrentScene ==
    /\ []SelectionInScene
    /\ [][/\ (\E scene \in VRScenes : handleSceneChange(scene)) =>
                selectedHotspot' = NoHotspot
          /\ selectedHotspot' # selectedHotspot /\ selectedHotspot' # NoHotspot =>
                /\ currentScene' = currentScene
                /\ \E i \in 1..Len(getSceneHotspots(currentScene)) :
                       getSceneHotspots(currentScene)[i] = selectedHotspot']_vars

\* C19 witness: after a change of scene a hotspot of the new scene is
\* selected.
SelectedAfterSceneChange ==
    /\ showVRExperience
    /\ currentScene = "museum"
    /\ selectedHotspot = Hotspot("11", "teleport")

----------------------------------------------------------------------------
(* Properties of SettingsPanel *)

\* C12: after any change made through the settings panel (updateSetting or
\* resetSettings) localStorage holds the current settings; at the least, it
\* holds an item.
SettingsChangeIsSaved ==
    [][(\/ \E quality \in Qualities : updateSetting("quality", quality)
        \/ \E key \in Switches, value \in BOOLEAN : updateSetting(key, value)
        \/ resetSettings)
          => DOMAIN localStorage' # {}]_vars

----------------------------------------------------------------------------
(* Properties of the localStorage cache *)

\* C13: after setLocalStorage(key, data, expiry) has succeeded,
\* getLocalStorage(key) returns data as long as the age of the entry does not
\* exceed its expiry; once it does, getLocalStorage(key) returns null and
\* removes the item 'cache_' + key.
StoredDataComesBack ==
    [][\A key \in StorageKeys :
          getLocalStorage(key) /\ key \in DOMAIN written =>
              LET call == written[key]
                  age == now - call.timestamp
              IN  /\ age <= call.expiry =>
                        /\ lastOp'.ret = call.data
                        /\ localStorage' = localStorage
                  /\ age > call.expiry =>
                        /\ lastOp'.ret = Null
                        /\ ("cache_" \o key) \notin DOMAIN localStorage']_vars

\* The text of an item is that of an entry which has expired at time t.
ExpiredText(text, t) ==
    /\ JSONparseItem(text).kind = "object"
    /\ t - JSONparseItem(text).timestamp > JSONparseItem(text).expiry

\* The text of an item cannot be parsed into an entry.
DamagedText(text) == JSONparseItem(text).kind # "object"

\* C14: cleanupLocalStorage removes exactly the items whose key starts with
\* 'cache_' and that are expired or cannot be parsed; every other item is
\* left unchanged.
CleanupRemovesExpiredAndDamaged ==
    [][cleanupLocalStorage =>
          /\ DOMAIN localStorage' \subseteq DOMAIN localStorage
          /\ \A k \in DOMAIN localStorage :
                IF /\ startsWithCache(k)
                   /\ ExpiredText(localStorage[k], now) \/ DamagedText(localStorage[k])
                THEN k \notin DOMAIN localStorage'
                ELSE k \in DOMAIN localStorage' /\ localStorage'[k] = localStorage[k]]_vars

----------------------------------------------------------------------------
(* Properties of the build *)

\* C15: manualChunks assigns the modules as the bundle report documents:
\* ids containing '@react-three' go to 'react-three', ids containing
\* 'react-router' to 'router', ids containing 'framer-motion' to
\* 'animation', Three.js ids to 'three', React core ids to 'react-vendor'
\* and all other node_modules ids to 'vendor'.
ChunksAsDocumented ==
    \A id \in DOMAIN chunks :
        chunks[id] =
            IF includes(id, "@react-three") THEN "react-three"
            ELSE IF includes(id, "react-router") THEN "router"
            ELSE IF includes(id, "framer-motion") THEN "animation"
            ELSE IF includes(id, "node_modules/three/") THEN "three"
            ELSE IF includes(id, "node_modules/react/")
                    \/ includes(id, "node_modules/react-dom/") THEN "react-vendor"
            ELSE IF includes(id, "node_modules") THEN "vendor"
            ELSE chunks[id]

----------------------------------------------------------------------------
(* Properties of ResourcePreloader.preload *)

\* C16: every preload call that starts a run eventually ends it, for every
\* queue length including an empty queue, provided each started load
\* eventually succeeds or fails: isLoading returns to false.
RunEventuallyEnds == isLoading ~> ~isLoading

\* await Promise.all(concurrentPromises); return this.loadedResources: the
\* promise of a preload call that starts a run resolves in the step in which
\* the last of the promises it awaits does; in the step of the call itself
\* when it has none to await.
PromiseResolves == (awaited # {} \/ runId' # runId) /\ awaited' = {}

\* C17: when the promise returned by a preload call that started a run
\* resolves, every resource of the run has finished loading or failed: the
\* queue is empty and no load is in flight.
ResolvedWhenAllSettled ==
    [][PromiseResolves => loadingQueue' = <<>> /\ inflight' = {}]_vars

\* C18: a preload call made while a run is in progress starts no load,
\* leaves the queue, currentLoads and the run as they are, returns the
\* current loadedResources, and invokes no callback, then or later: every
\* callback invoked is one handed to a call that started a run.
PreloadWhileLoadingDoesNothing ==
    /\ [][isLoading /\ preload =>
             /\ UNCHANGED <<loadingQueue, currentLoads, inflight, loadedResources,
                            isLoading, runId, totalItems, loadedItems, awaited>>
             /\ UNCHANGED <<memoryCache, textureCache>>
             /\ Len(events') = 1
             /\ events'[1].cb = "return"
             /\ events'[1].loaded = Len(loadedResources')]_vars
    /\ [](\A i \in 1..Len(events) :
             events[i].cb \in {"start", "progress", "error", "complete"} =>
                 events[i].run \in 1..runId)

\* C18 witness: a preload call has just been turned away by a run that has
\* loads in flight, items queued and resources loaded.
PreloadTurnedAway ==
    /\ Len(events) = 1
    /\ events[1].cb = "return"
    /\ events[1].loaded > 0
    /\ isLoading
    /\ currentLoads > 0
    /\ loadingQueue # <<>>

====
